---- MODULE Spec2Model ----
(***************************************************************************)
(* Model of the chat-extractor scripts of llm-chat-downloader:             *)
(*   scripts/extract_claude.py, scripts/extract_gemini.py,                 *)
(*   scripts/gemini_patchright.py, scripts/gemini_chat_extractor.py,       *)
(*   scripts/archive/gemini_extractor_simple.py, scripts/test_access.py.   *)
(* One behaviour is one run of one script on one command line.  The        *)
(* browser, the network and the parsed page are the environment: each      *)
(* step's outcome (an exception or not, the response status, the page's    *)
(* elements) is chosen nondeterministically.                               *)
(*                                                                         *)
(* A URL is the sequence of its '/'-separated segments.  A text is a small *)
(* number naming a string (0 is the empty string), and TextLen gives the   *)
(* string's length.  A page element carries its tag, its class attribute   *)
(* and its text; a Gemini turn carries its optional query and response.    *)
(***************************************************************************)
EXTENDS Integers, Sequences, FiniteSets, TLC

\* ---------------------------------------------------------------- bounds
MaxArgs   == 2      \* command-line arguments after the script's name
MaxElems  == 2      \* candidate elements of a page
MaxText   == 2      \* distinct non-empty texts
MaxBlocks == 1      \* blocks of the crawler's markdown rendering
MaxTurns  == 2      \* share-turn-viewer elements of a page
RunElems  == 1      \* elements, turns and blocks of a page in a whole run
MaxGrowth == 16     \* times a page grows under scrolling, in the scroll runs
RunGrowth == 1      \* times a page grows under scrolling, in a whole run
MaxLong   == 52     \* elements of a long page
MaxRepeat == 2      \* times a long page repeats each of its text blocks
MaxLinks  == 1      \* hyperlinks of an element

\* ------------------------------------------------------- program constants
LowMessageCount == 5     \* gemini_chat_extractor.py: "if len(messages) < 5"
FallbackLimit   == 50    \* extract_claude.py: "if len(messages) >= 50: break"
MaxScrolls      == 15    \* extract_claude.py, extract_gemini.py: "max_scrolls = 15"

\* ---------------------------------------------------------------- scripts
Scripts == {"extract_claude", "extract_gemini", "gemini_patchright",
            "gemini_chat_extractor", "gemini_extractor_simple", "test_access"}

\* The scripts whose extraction function wraps the page work in
\* try / except Exception / finally (and whose main has no try).
CatchesInFunction(s) == s \in {"extract_claude", "extract_gemini"}

\* The scripts whose main wraps each call in try / except Exception.
CatchesInMain(s) == s \in {"gemini_patchright", "gemini_chat_extractor",
                           "gemini_extractor_simple"}

\* The scripts that drive a Playwright browser themselves.
UsesPlaywright(s) == s # "gemini_chat_extractor"

\* The scripts whose main reads sys.argv.
ReadsArgv(s) == s # "test_access"

\* The scripts whose summary carries the successful / failed counters.
SummaryHasCounters(s) == s \in {"extract_claude", "extract_gemini"}

DefaultUrls(s) ==
    IF s = "extract_claude"
    THEN << <<"claude.ai", "share", "62bc6fc6">>, <<"claude.ai", "share", "0cc98a15">> >>
    ELSE << <<"g.co", "gemini", "share", "c9cba1e9858a">>,
            <<"g.co", "gemini", "share", "4079b2f26c6f">> >>

\* The arguments a user may give: https://host/share/x and a URL that ends
\* in '/', https://host/share/y/ (its last '/'-separated piece is empty).
ArgUrls == { <<"host", "share", "x">>, <<"host", "share", "y", "">> }

SeqsUpTo(S, n) == UNION { [1..k -> S] : k \in 0..n }

\* Two URLs with the same last piece, https://host/share/x and
\* https://other/share/x, and the command lines that give both.
SameNameUrls == { <<"host", "share", "x">>, <<"other", "share", "x">> }

SameNameArgs == { a \in [1..2 -> SameNameUrls] : a[1] # a[2] }

\* ------------------------------------------------------------------ texts
Texts == 0..MaxText

TextLen(t) == IF t = 0 THEN 0 ELSE IF t = 1 THEN 15 ELSE 40

\* ------------------------------------------------------------------- DOM
Tags == {"div", "span"}
ClassNames == {"", "message", "user-query"}

\* The keywords that are substrings of a class attribute's value.
Substrings(cls) ==
    IF cls = "message" THEN {"message"}
    ELSE IF cls = "user-query" THEN {"user", "query", "user-query"}
    ELSE {}

Option(S) == {<<>>} \cup { <<x>> : x \in S }

\* An <a href=...> of an element: its text and its href, 0 for the empty string.
Anchors == [text : 0..1, href : 0..1]

\* The hyperlinks of an element with the given text: the text of an element
\* holds the texts of its hyperlinks.
AnchorsIn(text) ==
    { as \in SeqsUpTo(Anchors, MaxLinks) :
         \A k \in 1..Len(as) : as[k].text # 0 => text # 0 }

Elements == [tag : Tags, cls : ClassNames, text : Texts, leaf : BOOLEAN, anchors : {<<>>}]

\* The elements extract_claude.py reads, with their hyperlinks.
LinkElements ==
    { e \in [tag : Tags, cls : {""}, text : Texts, leaf : BOOLEAN,
             anchors : SeqsUpTo(Anchors, MaxLinks)] : e.anchors \in AnchorsIn(e.text) }

\* The markdown div of a turn: its plain text and whether its markdown
\* rendering is a non-empty string (a div with text renders non-empty).
Responses == { r \in [text : Texts, md : BOOLEAN, anchors : {<<>>}] : r.text # 0 => r.md }

Turns == [query : Option(Texts), response : Option(Responses)]

\* The markdown divs and the turns with their hyperlinks.
LinkResponses ==
    { r \in [text : Texts, md : BOOLEAN, anchors : SeqsUpTo(Anchors, MaxLinks)] :
         (r.text # 0 => r.md) /\ r.anchors \in AnchorsIn(r.text) }

LinkTurns == [query : Option(Texts), response : Option(LinkResponses)]

\* What each script reads of an element: the rest is held at a default.
ElementsFor(s) ==
    IF s = "extract_claude" THEN { e \in Elements : e.cls = "" }
    ELSE IF s = "gemini_patchright" THEN { e \in Elements : e.leaf }
    ELSE { e \in Elements : e.leaf /\ e.tag = "div" }

\* The pages a script may meet, with at most n elements (turns for
\* extract_gemini.py) and b markdown blocks (gemini_chat_extractor.py).
PagesOf(s, n, b) ==
    IF s = "extract_gemini"
    THEN [elems : {<<>>}, turns : SeqsUpTo(Turns, n), markdown : {<<>>}]
    ELSE IF s = "gemini_chat_extractor"
    THEN [elems : SeqsUpTo(ElementsFor(s), n), turns : {<<>>},
          markdown : SeqsUpTo(Texts, b)]
    ELSE [elems : SeqsUpTo(ElementsFor(s), n), turns : {<<>>}, markdown : {<<>>}]

\* The pages of the extraction runs, and the smaller pages of the whole runs.
PagesFor(s) == PagesOf(s, IF s = "extract_gemini" THEN MaxTurns ELSE MaxElems, MaxBlocks)

RunPages(s) == PagesOf(s, RunElems, RunElems)

\* The pages of the two scripts that extract hyperlinks, with hyperlinks.
LinkPages(s) ==
    IF s = "extract_gemini"
    THEN [elems : {<<>>}, turns : SeqsUpTo(LinkTurns, MaxTurns), markdown : {<<>>}]
    ELSE [elems : SeqsUpTo(LinkElements, MaxElems), turns : {<<>>}, markdown : {<<>>}]

\* A long page: n elements of one tag that hold text blocks of 40 characters,
\* each block r times in a row.
LongPage(n, r, tag) ==
    [elems |-> [k \in 1..n |->
                   [tag |-> tag, cls |-> "", text |-> 2 + ((k - 1) \div r),
                    leaf |-> TRUE, anchors |-> <<>>]],
     turns |-> <<>>, markdown |-> <<>>]

LongPages == { LongPage(n, r, tag) : n \in 0..MaxLong, r \in 1..MaxRepeat, tag \in Tags }

\* ------------------------------------------------------------ extraction
\* markdownify's rendering of an element, named by the text it renders.
Markdown(text) == <<"md", text>>

HasContent(messages, text) ==
    \E j \in 1..Len(messages) : messages[j].content = text

\* extract_claude.py, strategy 3: the nested divs of the main content.
ClaudeMessage(messages, turn_idx, role, text) ==
    IF role = "assistant"
    THEN [index |-> Len(messages), turn |-> turn_idx, role |-> role,
          content |-> text, content_markdown |-> Markdown(text)]
    ELSE [index |-> Len(messages), turn |-> turn_idx, role |-> role,
          content |-> text]

\* links: the hyperlinks that have a text and an href.
Links(anchors) ==
    LET found == SelectSeq(anchors, LAMBDA a : a.text # 0 /\ a.href # 0)
    IN  [k \in 1..Len(found) |-> [text |-> found[k].text, url |-> found[k].href]]

\* A message that has a links key whatever was found.
WithLinksAlways(msg, anchors) == [links |-> Links(anchors)] @@ msg

\* if links: msg['links'] = links
WithLinks(msg, anchors) ==
    IF Links(anchors) # <<>> THEN [links |-> Links(anchors)] @@ msg ELSE msg

\* A guess that takes the first message for the assistant's.
NextRoleAssistantFirst(messages) ==
    IF Len(messages) = 0 THEN "assistant"
    ELSE IF messages[Len(messages)].role = "user" THEN "assistant" ELSE "user"

\* The role of the next message: user first, then the other role than the
\* last recorded message's.
NextRole(messages) ==
    IF Len(messages) = 0 THEN "user"
    ELSE IF messages[Len(messages)].role = "user" THEN "assistant" ELSE "user"

\* A counter that takes every message for a turn.
NextTurnEveryMessage(role, turn_idx) == turn_idx + 1

\* turn_idx after a message of the role is recorded: "turn_idx += 1" after an
\* assistant message.
NextTurn(role, turn_idx) == IF role = "assistant" THEN turn_idx + 1 ELSE turn_idx

\* A fallback with no limit.
FallbackNeverFull(messages) == FALSE

\* if len(messages) >= 50: break
FallbackFull(messages) == Len(messages) >= FallbackLimit

RECURSIVE ClaudePrimary(_, _, _, _)
ClaudePrimary(elems, k, messages, turn_idx) ==
    IF k > Len(elems) THEN [messages |-> messages, turn_idx |-> turn_idx]
    ELSE LET div == elems[k]
             text == div.text
             role == NextRole(messages)
             msg == IF role = "assistant"
                    THEN WithLinks(ClaudeMessage(messages, turn_idx, role, text),
                                   div.anchors)
                    ELSE ClaudeMessage(messages, turn_idx, role, text)
         IN  IF div.tag # "div" \/ text = 0 \/ TextLen(text) < 10 \/ ~div.leaf
             THEN ClaudePrimary(elems, k + 1, messages, turn_idx)
             ELSE IF ~HasContent(messages, text)
             THEN ClaudePrimary(elems, k + 1, Append(messages, msg),
                                NextTurn(role, turn_idx))
             ELSE ClaudePrimary(elems, k + 1, messages, turn_idx)

\* extract_claude.py, the fallback over all p / div / span elements.
RECURSIVE ClaudeFallback(_, _, _, _, _)
ClaudeFallback(elems, k, messages, turn_idx, current_role) ==
    IF k > Len(elems) THEN messages
    ELSE LET text == elems[k].text
             appended == Append(messages,
                                ClaudeMessage(messages, turn_idx, current_role, text))
         IN  IF text = 0 \/ TextLen(text) < 20 \/ HasContent(messages, text)
             THEN ClaudeFallback(elems, k + 1, messages, turn_idx, current_role)
             ELSE IF FallbackFull(appended) THEN appended
             ELSE ClaudeFallback(elems, k + 1, appended,
                                 NextTurn(current_role, turn_idx),
                                 IF current_role = "user" THEN "assistant" ELSE "user")

ExtractClaude(page) ==
    LET primary == ClaudePrimary(page.elems, 1, <<>>, 0)
    IN  IF Len(primary.messages) = 0
        THEN ClaudeFallback(page.elems, 1, <<>>, primary.turn_idx, "user")
        ELSE primary.messages

\* extract_gemini.py: one user query and one response per share-turn-viewer.
RECURSIVE GeminiTurns(_, _, _)
GeminiTurns(turns, k, messages) ==
    IF k > Len(turns) THEN messages
    ELSE LET turn == turns[k]
             turn_idx == k - 1
             withUser ==
                 IF turn.query # <<>> /\ turn.query[1] # 0
                 THEN Append(messages, [index |-> Len(messages), turn |-> turn_idx,
                                        role |-> "user", content |-> turn.query[1]])
                 ELSE messages
             withAssistant ==
                 IF turn.response # <<>> /\ turn.response[1].md
                 THEN Append(withUser,
                             WithLinks([index |-> Len(withUser), turn |-> turn_idx,
                                        role |-> "assistant",
                                        content |-> turn.response[1].text,
                                        content_markdown |->
                                            Markdown(turn.response[1].text)],
                                       turn.response[1].anchors))
                 ELSE withUser
         IN  GeminiTurns(turns, k + 1, withAssistant)

\* A numbering that counts only the turns that have a query or a response.
ExtractGeminiCounting(page) ==
    GeminiTurns(SelectSeq(page.turns, LAMBDA t : t.query # <<>> \/ t.response # <<>>),
                1, <<>>)

ExtractGemini(page) == GeminiTurns(page.turns, 1, <<>>)

\* gemini_patchright.py: elements whose class names a chat keyword.
PatchrightKeywords == {"message", "chat", "conversation", "turn", "response", "query"}

RECURSIVE PatchrightElems(_, _, _)
PatchrightElems(elems, k, messages) ==
    IF k > Len(elems) THEN messages
    ELSE LET elem == elems[k]
             text == elem.text
         IN  IF elem.tag = "div" /\ text # 0 /\ TextLen(text) > 30
                /\ Substrings(elem.cls) \cap PatchrightKeywords # {}
             THEN PatchrightElems(elems, k + 1,
                      Append(messages, [index |-> Len(messages), role |-> "unknown",
                                        content |-> text, element |-> elem.tag,
                                        classes |-> elem.cls]))
             ELSE PatchrightElems(elems, k + 1, messages)

ExtractPatchright(page) == PatchrightElems(page.elems, 1, <<>>)

\* A CSS selector as soup.select reads it: a class token, a substring of the
\* class attribute, another attribute (no element of the model carries one),
\* or a string that is no selector at all.
Matches(css, elem) ==
    IF css.kind = "class" THEN elem.cls = css.arg
    ELSE IF css.kind = "class_contains" THEN css.arg \in Substrings(elem.cls)
    ELSE FALSE

Select(css, elems) == SelectSeq(elems, LAMBDA e : Matches(css, e))

NonEmptyText(elems) == SelectSeq(elems, LAMBDA e : e.text # 0)

\* gemini_chat_extractor.py: the first selector that finds elements, else
\* every text block; then the markdown blocks when fewer than 5 were found.
CrawlSelectors ==
    << [kind |-> "class", arg |-> "conversation-turn"],
       [kind |-> "class_contains", arg |-> "message"],
       [kind |-> "class_contains", arg |-> "chat"],
       [kind |-> "attribute", arg |-> "data-message-author"],
       [kind |-> "class", arg |-> "model-response-text"],
       [kind |-> "class", arg |-> "user-query"] >>

\* A cascade that gathers the matches of every selector.
CrawlFoundAll(elems, k) ==
    SelectSeq(elems, LAMBDA e : \E n \in k..Len(CrawlSelectors) : Matches(CrawlSelectors[n], e))

RECURSIVE CrawlFound(_, _)
CrawlFound(elems, k) ==
    IF k > Len(CrawlSelectors) THEN <<>>
    ELSE IF Select(CrawlSelectors[k], elems) # <<>>
    THEN Select(CrawlSelectors[k], elems)
    ELSE CrawlFound(elems, k + 1)

CrawlMessageElements(elems) ==
    IF CrawlFound(elems, 1) # <<>> THEN CrawlFound(elems, 1) ELSE NonEmptyText(elems)

\* A role taken from the page's own word for the assistant.
CrawlRoleFromClass(cls) ==
    IF Substrings(cls) \cap {"user", "prompt", "query"} # {} THEN "user" ELSE "model"

CrawlRole(cls) ==
    IF Substrings(cls) \cap {"user", "prompt", "query"} # {} THEN "user" ELSE "assistant"

\* The index a DOM message of gemini_chat_extractor.py gets: enumerate's idx.
CrawlIndex(idx, messages) == idx

RECURSIVE CrawlElems(_, _, _)
CrawlElems(message_elements, k, messages) ==
    IF k > Len(message_elements) THEN messages
    ELSE LET element == message_elements[k]
         IN  IF element.text # 0
             THEN CrawlElems(message_elements, k + 1,
                      Append(messages, [index |-> CrawlIndex(k - 1, messages),
                                        role |-> CrawlRole(element.cls),
                                        content |-> element.text,
                                        element_class |-> element.cls]))
             ELSE CrawlElems(message_elements, k + 1, messages)

RECURSIVE CrawlMarkdown(_, _, _)
CrawlMarkdown(splits, k, messages) ==
    IF k > Len(splits) THEN messages
    ELSE IF splits[k] # 0
    THEN CrawlMarkdown(splits, k + 1,
             Append(messages, [index |-> Len(messages), role |-> "unknown",
                               content |-> splits[k], source |-> "markdown"]))
    ELSE CrawlMarkdown(splits, k + 1, messages)

ExtractCrawl(page) ==
    LET dom == CrawlElems(CrawlMessageElements(page.elems), 1, <<>>)
    IN  IF Len(dom) < LowMessageCount /\ page.markdown # <<>>
        THEN CrawlMarkdown(page.markdown, 1, dom)
        ELSE dom

\* archive/gemini_extractor_simple.py: a listed selector that does not start
\* with '[' is wrapped as [class*="<selector>"]; the wrapped string is no
\* selector when the listed one holds double quotes itself.
SimpleSelectors ==
    << [name |-> "message-content", bracket |-> FALSE, quotes |-> FALSE, kind |-> "tag"],
       [name |-> "model-response", bracket |-> FALSE, quotes |-> FALSE, kind |-> "tag"],
       [name |-> "user-query", bracket |-> FALSE, quotes |-> FALSE, kind |-> "tag"],
       [name |-> "data-test-id", bracket |-> TRUE, quotes |-> TRUE, kind |-> "attribute"],
       [name |-> "conversation", bracket |-> TRUE, quotes |-> TRUE, kind |-> "class_contains"],
       [name |-> "message", bracket |-> TRUE, quotes |-> TRUE, kind |-> "class_contains"],
       [name |-> "chat", bracket |-> TRUE, quotes |-> TRUE, kind |-> "class_contains"],
       [name |-> "div[role=article]", bracket |-> FALSE, quotes |-> TRUE, kind |-> "attribute"] >>

SimpleSelectorPassed(selector) ==
    IF selector.bracket THEN [kind |-> selector.kind, arg |-> selector.name]
    ELSE IF selector.quotes THEN [kind |-> "malformed", arg |-> selector.name]
    ELSE [kind |-> "class_contains", arg |-> selector.name]

RECURSIVE SimpleFound(_, _, _, _)
SimpleFound(found_elements, k, messages, selector) ==
    IF k > Len(found_elements) THEN messages
    ELSE LET text == found_elements[k].text
         IN  IF text # 0 /\ TextLen(text) > 10
             THEN SimpleFound(found_elements, k + 1,
                      Append(messages, [index |-> Len(messages), role |-> "unknown",
                                        content |-> text, selector |-> selector]),
                      selector)
             ELSE SimpleFound(found_elements, k + 1, messages, selector)

\* The cascade: [ok, messages]; ok is FALSE when soup.select raised.
RECURSIVE SimpleCascade(_, _)
SimpleCascade(elems, k) ==
    IF k > Len(SimpleSelectors) THEN [ok |-> TRUE, messages |-> <<>>]
    ELSE LET css == SimpleSelectorPassed(SimpleSelectors[k])
             messages == SimpleFound(Select(css, elems), 1, <<>>, SimpleSelectors[k].name)
         IN  IF css.kind = "malformed" THEN [ok |-> FALSE, messages |-> <<>>]
             ELSE IF messages # <<>> THEN [ok |-> TRUE, messages |-> messages]
             ELSE SimpleCascade(elems, k + 1)

RECURSIVE SimpleTextBlocks(_, _, _)
SimpleTextBlocks(text_elements, k, messages) ==
    IF k > Len(text_elements) THEN messages
    ELSE LET text == text_elements[k].text
         IN  IF text # 0 /\ TextLen(text) > 20 /\ ~HasContent(messages, text)
             THEN SimpleTextBlocks(text_elements, k + 1,
                      Append(messages, [index |-> Len(messages), role |-> "unknown",
                                        content |-> text, selector |-> "text_extraction"]))
             ELSE SimpleTextBlocks(text_elements, k + 1, messages)

ExtractSimple(page) ==
    LET cascade == SimpleCascade(page.elems, 1)
    IN  IF ~cascade.ok THEN [ok |-> FALSE, messages |-> <<>>]
        ELSE IF cascade.messages = <<>>
        THEN [ok |-> TRUE, messages |-> SimpleTextBlocks(page.elems, 1, <<>>)]
        ELSE cascade

\* What parsing the page gives in each script: the messages, or an exception.
Extract(s, page) ==
    IF s = "extract_claude" THEN [ok |-> TRUE, messages |-> ExtractClaude(page)]
    ELSE IF s = "extract_gemini" THEN [ok |-> TRUE, messages |-> ExtractGemini(page)]
    ELSE IF s = "gemini_patchright" THEN [ok |-> TRUE, messages |-> ExtractPatchright(page)]
    ELSE IF s = "gemini_chat_extractor" THEN [ok |-> TRUE, messages |-> ExtractCrawl(page)]
    ELSE ExtractSimple(page)

\* ---------------------------------------------------------------- records
\* A hash that passes over a trailing '/': url.rstrip("/").split("/")[-1]
UrlHashStripped(url) ==
    IF url[Len(url)] = "" THEN url[Len(url) - 1] ELSE url[Len(url)]

\* url.split("/")[-1]
UrlHash(url) == url[Len(url)]

ErrorRecord(e, url) == [error |-> e, url |-> url]

\* "error" in r
IsError(r) == "error" \in DOMAIN r

\* A count taken before the markdown blocks are appended.
MessageCountBeforeMarkdown(messages) ==
    Len(SelectSeq(messages, LAMBDA m : "source" \notin DOMAIN m))

\* len(messages), as the result record reads it
MessageCount(messages) == Len(messages)

\* The result record of a URL (timestamp, page title and text preview are
\* left out: no step reads them back).
ChatData(s, url, status, messages, page) ==
    IF s = "gemini_chat_extractor"
    THEN [url |-> url, message_count |-> MessageCount(messages),
          messages |-> messages, raw_markdown |-> page.markdown]
    ELSE [url |-> url, status_code |-> status,
          message_count |-> MessageCount(messages), messages |-> messages]

\* File names, as sequences of their parts.
JsonFile(s, url) ==
    IF CatchesInFunction(s) THEN <<"output", "", UrlHash(url), "_chat.json">>
    ELSE <<"output", "gemini_chat_", UrlHash(url), ".json">>

HtmlFile(s, url) ==
    IF CatchesInFunction(s) THEN <<"output", "", UrlHash(url), "_raw.html">>
    ELSE IF s = "test_access" THEN <<".", "test_output_", UrlHash(url), ".html">>
    ELSE <<"output", "gemini_chat_", UrlHash(url), "_debug.html">>

ScreenshotFile(s, url) ==
    IF CatchesInFunction(s) THEN <<"output", "", UrlHash(url), "_screenshot.png">>
    ELSE <<"output", "gemini_chat_", UrlHash(url), "_screenshot.png">>

\* summary_<time>.json / extraction_summary.json
SummaryFile(s) == <<"output", "summary", "", ".json">>

\* The raw HTML snapshot written beside the result: the serialization of the
\* DOM as it was when page.content() was called (dom counts the times the page
\* had grown by then).
RawHtml(dom) == [html |-> dom]

Screenshot == [png |-> "page"]

WriteFile(fs, name, content) == (name :> content) @@ fs

\* ------------------------------------------------------------------- JSON
\* The Python value of a record's field: every key is a str, every value a
\* str, an int, None, a list of dicts or a dict.
PyNone == [py |-> "NoneType", v |-> "None"]

IntFields == {"index", "turn", "message_count", "total_urls", "successful", "failed"}

ListFields == {"messages", "results", "links"}

RECURSIVE PyDict(_), PyField(_, _)
PyField(name, v) ==
    IF name \in ListFields
    THEN [py |-> "list", v |-> [k \in 1..Len(v) |-> PyDict(v[k])]]
    ELSE IF name \in IntFields THEN [py |-> "int", v |-> v]
    ELSE IF name = "status_code"
    THEN IF v = "None" THEN PyNone ELSE [py |-> "int", v |-> v]
    ELSE IF name = "raw_markdown"
    THEN IF v = <<>> THEN PyNone ELSE [py |-> "str", v |-> v]
    ELSE [py |-> "str", v |-> v]

PyDict(r) == [py |-> "dict", v |-> [f \in DOMAIN r |-> PyField(f, r[f])]]

\* An encoder that renders what it does not know with str(): None as "None".
DumpsScalarDefaultStr(o) ==
    IF o.py = "int" THEN [json |-> "number", v |-> o.v]
    ELSE [json |-> "string", v |-> o.v]

\* json.dump of a value that is no container.
DumpsScalar(o) ==
    IF o.py = "str" THEN [json |-> "string", v |-> o.v]
    ELSE IF o.py = "int" THEN [json |-> "number", v |-> o.v]
    ELSE IF o.py = "NoneType" THEN [json |-> "null", v |-> "null"]
    ELSE [json |-> "TypeError", v |-> o.py]

\* json.dump: the JSON document of a Python value.
RECURSIVE Dumps(_)
Dumps(o) ==
    IF o.py = "dict"
    THEN [json |-> "object", v |-> [f \in DOMAIN o.v |-> Dumps(o.v[f])]]
    ELSE IF o.py = "list"
    THEN [json |-> "array", v |-> [k \in DOMAIN o.v |-> Dumps(o.v[k])]]
    ELSE DumpsScalar(o)

\* json.load: the Python value of a JSON document.
RECURSIVE Loads(_)
Loads(j) ==
    IF j.json = "object"
    THEN [py |-> "dict", v |-> [f \in DOMAIN j.v |-> Loads(j.v[f])]]
    ELSE IF j.json = "array"
    THEN [py |-> "list", v |-> [k \in DOMAIN j.v |-> Loads(j.v[k])]]
    ELSE IF j.json = "string" THEN [py |-> "str", v |-> j.v]
    ELSE IF j.json = "number" THEN [py |-> "int", v |-> j.v]
    ELSE PyNone

\* A document json.load accepts: the dump was not cut short by a TypeError.
RECURSIVE WellFormed(_)
WellFormed(j) ==
    IF j.json \in {"object", "array"}
    THEN \A f \in DOMAIN j.v : WellFormed(j.v[f])
    ELSE j.json \in {"string", "number", "null"}

\* json.dump(record, f, indent=2, ensure_ascii=False)
JsonDump(r) == Dumps(PyDict(r))

\* sum(1 for r in results if "error" in r), and with "not in"
RECURSIVE CountResults(_, _, _)
CountResults(rs, k, error) ==
    IF k > Len(rs) THEN 0
    ELSE (IF IsError(rs[k]) = error THEN 1 ELSE 0) + CountResults(rs, k + 1, error)

\* The run summary main writes after the loop.
Summary(s, url_list, rs) ==
    IF SummaryHasCounters(s)
    THEN [total_urls |-> Len(url_list),
          successful |-> CountResults(rs, 1, FALSE),
          failed |-> CountResults(rs, 1, TRUE),
          results |-> rs]
    ELSE [total_urls |-> Len(url_list), results |-> rs]

\* ------------------------------------------------------------------- main
\* len(sys.argv) == 3 in extract_claude.py: URL and output file.
ApiMode(s, args) == s = "extract_claude" /\ Len(args) = 2

\* A main that takes the command line only from two arguments on.
UrlListFromTwo(s, args) ==
    IF ApiMode(s, args) THEN <<args[1]>>
    ELSE IF ReadsArgv(s) /\ Len(args) > 1 THEN args
    ELSE DefaultUrls(s)

UrlList(s, args) ==
    IF ApiMode(s, args) THEN <<args[1]>>
    ELSE IF ReadsArgv(s) /\ Len(args) > 0 THEN args
    ELSE DefaultUrls(s)

Statuses == {"200", "403"}

\* The scripts that scroll in a loop until the page stops growing.
ScrollsInLoop(s) == CatchesInFunction(s)

VARIABLES
    script,     \* the script that runs
    argv,       \* sys.argv[1:]
    mode,       \* "api" (URL + output file) or "list"
    urls,       \* the URL list of main
    i,          \* the number of URLs main is done with
    pc,         \* the position in the script
    browser,    \* the number of browsers open
    response,   \* the status of page.goto's response ("" before, "None" for none)
    height,     \* the times the page has grown: names its DOM and its scrollHeight
    last_height,     \* the scroll loop's last_height
    scroll_attempts, \* the scroll loop's scroll_attempts
    scrolls,    \* the scroll-to-bottom actions of the scroll loop so far
    html,       \* the DOM serialization page.content() returned, if any
    soup,       \* the page as parsed, if any
    chat_data,  \* the result record built for the current URL, if any
    ret,        \* the value the extraction function is about to return, if any
    exc,        \* the exception in flight through a finally block, if any
    results,    \* main's results list
    files,      \* the files written, by name: what each holds
    disk,       \* the JSON documents written, by name: the text json.dump wrote
    summary,    \* the run summary written, if any
    hist        \* per URL started: what was raised, the status, the steps taken

vars == <<script, argv, mode, urls, i, pc, browser, response, height, last_height,
          scroll_attempts, scrolls, html, soup, chat_data, ret, exc, results,
          files, disk, summary, hist>>

run == <<script, argv, mode, urls>>

\* The state of the page of the current URL and the locals that hold it.
tab == <<height, last_height, scroll_attempts, scrolls, html, soup>>

url == urls[i + 1]

\* The state when the script starts, on one of the given command lines.
InitWith(args) ==
    /\ script \in Scripts
    /\ argv \in args
    /\ mode = ""
    /\ urls = <<>>
    /\ i = 0
    /\ pc = "main"
    /\ browser = 0
    /\ response = ""
    /\ height = 0
    /\ last_height = 0
    /\ scroll_attempts = 0
    /\ scrolls = 0
    /\ html = <<>>
    /\ soup = <<>>
    /\ chat_data = <<>>
    /\ ret = <<>>
    /\ exc = <<>>
    /\ results = <<>>
    /\ files = <<>>
    /\ disk = <<>>
    /\ summary = <<>>
    /\ hist = <<>>

Init == InitWith(SeqsUpTo(ArgUrls, MaxArgs))

Main ==
    /\ pc = "main"
    /\ mode' = IF ApiMode(script, argv) THEN "api" ELSE "list"
    /\ urls' = UrlList(script, argv)
    /\ pc' = "loop"
    /\ UNCHANGED <<script, argv, i, browser, response, tab, chat_data, ret, exc,
                   results, files, disk, summary, hist>>

\* main calls the extraction function on the next URL.
NextUrl ==
    /\ pc = "loop"
    /\ i < Len(urls)
    /\ pc' = "launch"
    /\ hist' = Append(hist, [url |-> url, raised |-> <<>>, status |-> "",
                             parsed |-> <<>>, navs |-> 0, steps |-> <<>>,
                             dom |-> <<>>])
    /\ UNCHANGED <<run, i, browser, response, tab, chat_data, ret, exc, results,
                   files, disk, summary>>

Raised(h, e) == [h EXCEPT ![Len(h)].raised = Append(@, e)]

Note(e) == Raised(hist, e)

\* A pipeline step of the current URL begins.
Step(h, name) == [h EXCEPT ![Len(h)].steps = Append(@, name)]

\* The extraction function is left: main goes on with the next URL, and the
\* next call starts from a new page.
EndUrl(rs) ==
    /\ results' = rs
    /\ i' = i + 1
    /\ pc' = "loop"
    /\ response' = ""
    /\ height' = 0
    /\ last_height' = 0
    /\ scroll_attempts' = 0
    /\ scrolls' = 0
    /\ html' = <<>>
    /\ soup' = <<>>
    /\ chat_data' = <<>>
    /\ ret' = <<>>
    /\ exc' = <<>>

\* An uncaught exception ends the process; on its way out it leaves the
\* "async with async_playwright()" block, which stops the driver and with it
\* every browser the driver launched.
Crash ==
    /\ pc' = "crashed"
    /\ browser' = 0
    /\ UNCHANGED <<i, response, tab, chat_data, ret, exc, results>>

\* Exception e leaves the extraction function, with open browsers left open.
Propagate(e, open) ==
    IF CatchesInMain(script)
    THEN /\ EndUrl(Append(results, ErrorRecord(e, url)))
         /\ browser' = open
    ELSE Crash

\* No handler around the page work: the exception ends the process.
RaiseUncaught(h, e) ==
    /\ hist' = Raised(h, e)
    /\ Crash

\* A handler that returns the error record at once, and no finally block.
RaiseSkippingFinally(h, e) ==
    /\ hist' = Raised(h, e)
    /\ EndUrl(IF script = "test_access" THEN results
              ELSE Append(results, ErrorRecord(e, url)))
    /\ UNCHANGED browser

\* Exception e is raised inside the function's try block (or, in
\* gemini_chat_extractor.py, inside its async with block).
RaiseInTryFrom(h, e) ==
    /\ hist' = Raised(h, e)
    /\ IF script = "test_access"
       THEN Crash
       ELSE /\ pc' = "close"
            /\ ret' = IF CatchesInFunction(script) THEN <<ErrorRecord(e, url)>> ELSE <<>>
            /\ exc' = IF CatchesInFunction(script) THEN <<>> ELSE <<e>>
            /\ UNCHANGED <<i, browser, response, tab, chat_data, results>>

RaiseInTry(e) == RaiseInTryFrom(hist, e)

\* p.chromium.launch / AsyncWebCrawler.__aenter__
Launch ==
    /\ pc = "launch"
    /\ \E ok \in BOOLEAN :
          IF ok
          THEN /\ browser' = browser + 1
               /\ pc' = IF UsesPlaywright(script) THEN "context" ELSE "goto"
               /\ hist' = Step(hist, "launch")
               /\ UNCHANGED <<i, response, tab, chat_data, ret, exc, results>>
          ELSE /\ hist' = Raised(Step(hist, "launch"), "launch")
               /\ Propagate("launch", browser)
    /\ UNCHANGED <<run, files, disk, summary>>

\* browser.new_context, context.new_page: before the try block.
NewContext ==
    /\ pc = "context"
    /\ \E ok \in BOOLEAN :
          IF ok
          THEN /\ pc' = "goto"
               /\ UNCHANGED <<i, browser, response, tab, chat_data, ret, exc,
                              results, hist>>
          ELSE /\ hist' = Note("new_context")
               /\ Propagate("new_context", 0)
    /\ UNCHANGED <<run, files, disk, summary>>

\* page.goto and the read of response.status; crawler.arun and the test of
\* result.success in gemini_chat_extractor.py.
GotoOutcomes(s) ==
    IF s = "gemini_chat_extractor" THEN {"raise", "failed"} \cup Statuses
    ELSE {"raise", "None"} \cup Statuses

\* The scripts that read response.status without testing response.
NeedsResponse(s) == s \in {"extract_claude", "extract_gemini", "test_access"}

\* A script that fails the URL on a status other than 200.
StatusRaisesNon200(s, status) == status # "200"

\* What a response status does to the run: no script tests it.
StatusRaises(s, status) == FALSE

\* A navigation that is tried again when it raised.
GotoRetried(h) ==
    /\ hist' = h
    /\ pc' = "goto"
    /\ UNCHANGED <<i, browser, response, tab, chat_data, ret, exc, results>>

\* page.goto raised: there is no retry, the exception goes to the handler.
GotoRaised(h) == RaiseInTryFrom(h, "goto")

\* Where a script goes after the navigation.
AfterGoto(s) ==
    IF s \in {"gemini_patchright", "gemini_extractor_simple"} THEN "scroll"
    ELSE "capture"

Goto ==
    /\ pc = "goto"
    /\ \E outcome \in GotoOutcomes(script) :
          LET h == Step([hist EXCEPT ![Len(hist)].navs = @ + 1], "navigate")
              seen == [h EXCEPT ![Len(h)].status = outcome]
          IN  IF outcome = "raise" THEN GotoRaised(h)
              ELSE IF outcome = "failed"
              THEN /\ hist' = Raised(h, "crawl_failed")
                   /\ ret' = <<ErrorRecord("crawl_failed", url)>>
                   /\ pc' = "close"
                   /\ UNCHANGED <<i, browser, response, tab, chat_data, exc, results>>
              ELSE IF outcome = "None" /\ NeedsResponse(script)
              THEN RaiseInTryFrom(h, "response_none")
              ELSE IF StatusRaises(script, outcome)
              THEN RaiseInTryFrom(seen, "status")
              ELSE /\ response' = outcome
                   /\ pc' = AfterGoto(script)
                   \* crawler.arun runs its js_code (the scroll) and returns the HTML
                   /\ hist' = IF UsesPlaywright(script) THEN seen
                              ELSE Step(Step(seen, "scroll"), "capture")
                   /\ html' = IF UsesPlaywright(script) THEN html ELSE <<height>>
                   /\ UNCHANGED <<i, browser, height, last_height, scroll_attempts,
                                  scrolls, soup, chat_data, ret, exc, results>>
    /\ UNCHANGED <<run, files, disk, summary>>

\* What the capture of a page may end in: page.content() raises, or the
\* screenshot raises after the snapshot was written (extract_claude.py,
\* extract_gemini.py), or it raises before and is passed over
\* (gemini_patchright.py).
CaptureOutcomes(s) ==
    {"ok", "content"}
        \cup (IF CatchesInFunction(s) THEN {"screenshot"} ELSE {})
        \cup (IF s = "gemini_patchright" THEN {"no_screenshot"} ELSE {})

\* The files a capture writes.
Captured(fs, s, u, dom, outcome) ==
    LET snapshot == WriteFile(fs, HtmlFile(s, u), RawHtml(dom))
    IN  IF outcome = "ok" /\ (CatchesInFunction(s) \/ s = "gemini_patchright")
        THEN WriteFile(snapshot, ScreenshotFile(s, u), Screenshot)
        ELSE snapshot

\* page.content(), the write of the raw HTML file and the screenshot; in
\* extract_claude.py and extract_gemini.py also the read of the page height
\* before the scroll loop.  gemini_chat_extractor.py writes the HTML that
\* arun returned.  test_access.py catches what this raises and goes on to
\* close the browser.
Capture ==
    /\ pc = "capture"
    /\ \E outcome \in CaptureOutcomes(script) :
          LET h == IF UsesPlaywright(script) THEN Step(hist, "capture") ELSE hist
              dom == IF UsesPlaywright(script) THEN height ELSE html[1]
          IN  IF outcome = "content"
              THEN IF script = "test_access"
                   THEN /\ hist' = Raised(h, "content")
                        /\ pc' = "close"
                        /\ UNCHANGED <<i, browser, response, tab, chat_data, ret, exc,
                                       results, files>>
                   ELSE /\ RaiseInTryFrom(h, "content")
                        /\ UNCHANGED files
              ELSE IF outcome = "screenshot"
              THEN /\ RaiseInTryFrom(h, "screenshot")
                   /\ files' = Captured(files, script, url, dom, outcome)
              ELSE /\ files' = Captured(files, script, url, dom, outcome)
                   /\ html' = <<dom>>
                   /\ hist' = h
                   /\ last_height' = height
                   /\ scroll_attempts' = 0
                   /\ pc' = IF script = "test_access" THEN "close"
                            ELSE IF ScrollsInLoop(script) THEN "scroll"
                            ELSE "parse"
                   /\ UNCHANGED <<i, browser, response, height, scrolls, soup,
                                  chat_data, ret, exc, results>>
    /\ UNCHANGED <<run, disk, summary>>

\* A loop with no bound on the scrolls.
ScrollForever(attempts) == TRUE

\* while scroll_attempts < max_scrolls
ScrollMore(attempts) == attempts < MaxScrolls

\* What document.body.scrollHeight may read after a scroll to the bottom, on a
\* page that grows at most growth times.
Heights(growth) == {height} \cup (IF height < growth THEN {height + 1} ELSE {})

\* The scroll.  extract_claude.py and extract_gemini.py: one pass of the loop
\* (scroll to the bottom, read the height, break when it did not change) and
\* the test of the loop's condition.  gemini_patchright.py: two scrolls, what
\* they raise is passed over.  archive/gemini_extractor_simple.py: one script
\* of three scrolls.
ScrollOf(growth) ==
    /\ pc = "scroll"
    /\ ScrollsInLoop(script) => ScrollMore(scroll_attempts)
    /\ \E raises \in BOOLEAN, outcome \in Heights(growth) :
          LET h == IF hist[Len(hist)].steps[Len(hist[Len(hist)].steps)] = "scroll"
                   THEN hist ELSE Step(hist, "scroll")
          IN  IF raises
              THEN IF script = "gemini_patchright"
                   THEN /\ hist' = h
                        /\ pc' = "capture"
                        /\ UNCHANGED <<i, browser, response, tab, chat_data, ret, exc,
                                       results>>
                   ELSE RaiseInTryFrom(h, "scroll")
              ELSE IF ScrollsInLoop(script)
              THEN /\ hist' = h
                   /\ height' = outcome
                   /\ scrolls' = scrolls + 1
                   /\ IF outcome = last_height
                      THEN /\ pc' = "parse"
                           /\ UNCHANGED <<last_height, scroll_attempts>>
                      ELSE /\ last_height' = outcome
                           /\ scroll_attempts' = scroll_attempts + 1
                           /\ pc' = IF ScrollMore(scroll_attempts + 1)
                                    THEN "scroll" ELSE "parse"
                   /\ UNCHANGED <<i, browser, response, html, soup, chat_data, ret,
                                  exc, results>>
              ELSE /\ hist' = h
                   /\ height' = outcome
                   /\ pc' = "capture"
                   /\ UNCHANGED <<i, browser, response, last_height, scroll_attempts,
                                  scrolls, html, soup, chat_data, ret, exc, results>>
    /\ UNCHANGED <<run, files, disk, summary>>

Scroll == ScrollOf(RunGrowth)

\* The DOM the messages are parsed from: extract_claude.py and
\* extract_gemini.py call page.content() again after the scroll loop, the
\* other scripts parse the string they saved.
ParsedDom(s) == IF ScrollsInLoop(s) THEN height ELSE html[1]

\* BeautifulSoup and the extraction of the messages, up to the result record.
ParseOf(pages) ==
    /\ pc = "parse"
    /\ \E page \in pages, ok \in BOOLEAN :
          LET out == Extract(script, page)
              h == Step(hist, "parse")
              found == [h EXCEPT ![Len(h)].parsed = <<Len(out.messages)>>,
                                 ![Len(h)].dom = <<ParsedDom(script)>>]
          IN  IF ~ok THEN RaiseInTryFrom(h, "parse")
              ELSE IF ~out.ok THEN RaiseInTryFrom(found, "selector_syntax")
              ELSE /\ chat_data' = <<ChatData(script, url, response, out.messages, page)>>
                   /\ soup' = <<page>>
                   /\ hist' = found
                   /\ pc' = "write"
                   /\ UNCHANGED <<i, browser, response, height, last_height,
                                  scroll_attempts, scrolls, html, ret, exc, results>>
    /\ UNCHANGED <<run, files, disk, summary>>

Parse == ParseOf(RunPages(script))

\* json.dump of the result record to the per-URL file, and the return.
Write ==
    /\ pc = "write"
    /\ \E ok \in BOOLEAN :
          IF ok
          THEN /\ files' = WriteFile(files, JsonFile(script, url), chat_data[1])
               /\ disk' = WriteFile(disk, JsonFile(script, url), JsonDump(chat_data[1]))
               /\ ret' = chat_data
               /\ pc' = "close"
               /\ hist' = Step(hist, "write")
               /\ UNCHANGED <<i, browser, response, tab, chat_data, exc, results>>
          ELSE /\ RaiseInTryFrom(Step(hist, "write"), "write")
               /\ UNCHANGED <<files, disk>>
    /\ UNCHANGED <<run, summary>>

\* What a failed close leaves open: the exception leaves the async with block
\* of async_playwright, which stops the driver and its browsers; the crawler
\* of gemini_chat_extractor.py may or may not have closed its browser.
LeftOpen(s) == IF UsesPlaywright(s) THEN {0} ELSE {browser - 1, browser}

\* browser.close() in the finally block (the exit of the async with block in
\* gemini_chat_extractor.py, the last statement of test_url), then the
\* function's return to main or the exception's way out.
Close ==
    /\ pc = "close"
    /\ \E ok \in BOOLEAN :
          IF ok
          THEN /\ hist' = hist
               /\ IF exc # <<>> THEN Propagate(exc[1], browser - 1)
                  ELSE /\ browser' = browser - 1
                       /\ IF script = "test_access" THEN EndUrl(results)
                          ELSE EndUrl(Append(results, ret[1]))
          ELSE /\ hist' = Note("close")
               /\ \E open \in LeftOpen(script) : Propagate("close", open)
    /\ UNCHANGED <<run, files, disk, summary>>

\* After the loop: the run summary.
Finish ==
    /\ pc = "loop"
    /\ i = Len(urls)
    /\ mode = "list"
    /\ summary' = IF script = "test_access" THEN summary
                  ELSE <<Summary(script, urls, results)>>
    /\ disk' = IF script = "test_access" THEN disk
               ELSE WriteFile(disk, SummaryFile(script),
                              JsonDump(Summary(script, urls, results)))
    /\ pc' = "done"
    /\ UNCHANGED <<run, i, browser, response, tab, chat_data, ret, exc, results,
                   files, hist>>

\* An API mode that saves a successful result only.
SaveApiSuccessOnly ==
    /\ pc = "loop"
    /\ i = Len(urls)
    /\ mode = "api"
    /\ files' = IF IsError(results[1]) THEN files
                ELSE WriteFile(files, argv[2], results[1])
    /\ disk' = IF IsError(results[1]) THEN disk
               ELSE WriteFile(disk, argv[2], JsonDump(results[1]))
    /\ pc' = "done"
    /\ UNCHANGED <<run, i, browser, response, tab, chat_data, ret, exc, results,
                   summary, hist>>

\* API mode: the one result goes to the output file, error or not.
SaveApi ==
    /\ pc = "loop"
    /\ i = Len(urls)
    /\ mode = "api"
    /\ files' = WriteFile(files, argv[2], results[1])
    /\ disk' = WriteFile(disk, argv[2], JsonDump(results[1]))
    /\ pc' = "done"
    /\ UNCHANGED <<run, i, browser, response, tab, chat_data, ret, exc, results,
                   summary, hist>>

Next ==
    \/ Main
    \/ NextUrl
    \/ Launch
    \/ NewContext
    \/ Goto
    \/ Scroll
    \/ Capture
    \/ Parse
    \/ Write
    \/ Close
    \/ Finish
    \/ SaveApi

Spec == Init /\ [][Next]_vars

\* The steps a script has taken when it parses the page.
StepsBeforeParse(s) ==
    IF ScrollsInLoop(s) THEN <<"launch", "navigate", "capture", "scroll">>
    ELSE <<"launch", "navigate", "scroll", "capture">>

\* The extraction alone, on every page within the bounds: a run that has
\* captured the page of its first URL parses it and writes the result.
InitExtract ==
    /\ script \in Scripts \ {"test_access"}
    /\ argv \in SeqsUpTo(ArgUrls, 1)
    /\ mode = "list"
    /\ urls = UrlList(script, argv)
    /\ i = 0
    /\ pc = "parse"
    /\ browser = 1
    /\ response \in IF script = "gemini_chat_extractor" THEN {"200"} ELSE Statuses
    /\ height = 0
    /\ last_height = 0
    /\ scroll_attempts = 0
    /\ scrolls = IF ScrollsInLoop(script) THEN 1 ELSE 0
    /\ html = <<0>>
    /\ soup = <<>>
    /\ chat_data = <<>>
    /\ ret = <<>>
    /\ exc = <<>>
    /\ results = <<>>
    /\ files = Captured(<<>>, script, url, 0, "ok")
    /\ disk = <<>>
    /\ summary = <<>>
    /\ hist = << [url |-> url, raised |-> <<>>, status |-> response, parsed |-> <<>>,
                  navs |-> 1, steps |-> StepsBeforeParse(script), dom |-> <<>>] >>

ParseAny == ParseOf(PagesFor(script))

NextExtract ==
    \/ ParseAny
    \/ Write
    \/ Close

SpecExtract == InitExtract /\ [][NextExtract]_vars

\* The whole runs on a command line of two URLs with the same last piece.
InitPair == InitWith(SameNameArgs)

SpecPair == InitPair /\ [][Next]_vars

\* extract_claude.py on long pages: a run that has captured the page of its
\* first URL parses it and writes the result.
InitLong ==
    /\ InitExtract
    /\ script = "extract_claude"

ParseLong == ParseOf(LongPages)

NextLong ==
    \/ ParseLong
    \/ Write
    \/ Close

SpecLong == InitLong /\ [][NextLong]_vars

\* extract_claude.py and extract_gemini.py on pages with hyperlinks.
InitLinks ==
    /\ InitExtract
    /\ script \in {"extract_claude", "extract_gemini"}

ParseLinks == ParseOf(LinkPages(script))

NextLinks ==
    \/ ParseLinks
    \/ Write
    \/ Close

SpecLinks == InitLinks /\ [][NextLinks]_vars

\* The scroll loop alone, on a page that may grow after every scroll: a run
\* of extract_claude.py or extract_gemini.py that has captured the page of
\* its first URL and read the page height.
InitScroll ==
    /\ script \in {s \in Scripts : ScrollsInLoop(s)}
    /\ argv \in SeqsUpTo(ArgUrls, 1)
    /\ mode = "list"
    /\ urls = UrlList(script, argv)
    /\ i = 0
    /\ pc = "scroll"
    /\ browser = 1
    /\ response \in Statuses
    /\ height = 0
    /\ last_height = 0
    /\ scroll_attempts = 0
    /\ scrolls = 0
    /\ html = <<0>>
    /\ soup = <<>>
    /\ chat_data = <<>>
    /\ ret = <<>>
    /\ exc = <<>>
    /\ results = <<>>
    /\ files = Captured(<<>>, script, url, 0, "ok")
    /\ disk = <<>>
    /\ summary = <<>>
    /\ hist = << [url |-> url, raised |-> <<>>, status |-> response, parsed |-> <<>>,
                  navs |-> 1, steps |-> <<"launch", "navigate", "capture">>,
                  dom |-> <<>>] >>

ScrollAny == ScrollOf(MaxGrowth)

NextScroll == ScrollAny

\* The loop's passes are steps of one sequential function: each is taken.
SpecScroll == InitScroll /\ [][NextScroll]_vars /\ WF_vars(NextScroll)

\* ----------------------------------------------------------------- claims
IsChat(r) == "messages" \in DOMAIN r

\* P holds of every successful result record there is: in main's results, built
\* or about to be returned by the extraction function, or written to a file.
EveryRecord(P(_)) ==
    /\ \A k \in 1..Len(results) : IsChat(results[k]) => P(results[k])
    /\ chat_data # <<>> => P(chat_data[1])
    /\ (ret # <<>> /\ IsChat(ret[1])) => P(ret[1])
    /\ \A f \in DOMAIN files : IsChat(files[f]) => P(files[f])
    /\ summary # <<>> =>
          \A k \in 1..Len(summary[1].results) :
              IsChat(summary[1].results[k]) => P(summary[1].results[k])

CountIsLength(r) == r.message_count = Len(r.messages)

\* C1: in every successful result record, message_count equals the length of
\* the messages array, whichever extraction path produced the messages.
C1_MessageCountIsLength == EveryRecord(CountIsLength)

\* C1's case: a returned record holding a DOM message and a markdown message.
C1_Witness ==
    \E k \in 1..Len(results) :
        /\ IsChat(results[k])
        /\ results[k].message_count = 2
        /\ "source" \notin DOMAIN results[k].messages[1]
        /\ "source" \in DOMAIN results[k].messages[2]

IndexIsPosition(r) ==
    /\ \A k \in 1..Len(r.messages) : r.messages[k].index = k - 1
    /\ \A k \in 1..(Len(r.messages) - 1) : r.messages[k].index < r.messages[k + 1].index

\* C2: in every successful result record, the index fields are strictly
\* increasing and each message's index is its 0-based position, also when
\* elements with empty text are skipped and markdown messages are appended.
C2_IndexIsPosition == EveryRecord(IndexIsPosition)

\* The failures of the claims about one URL: navigation (a raise of page.goto,
\* a crawl that reports no success, a missing response), capture and parsing.
PageFailures == {"goto", "crawl_failed", "response_none", "content", "parse",
                 "selector_syntax"}

\* C3: a failure while processing one URL (navigation, capture, parsing) is
\* caught per URL and becomes the error record {error, url} that takes the
\* URL's place in results, and the run goes on: it is not ended by it.
C3_FailureBecomesErrorRecord ==
    script # "test_access" =>
        /\ Len(results) = i
        /\ \A j \in 1..Len(hist) :
              (Len(hist[j].raised) = 1 /\ hist[j].raised[1] \in PageFailures) =>
                  /\ ~(pc = "crashed" /\ j = Len(hist))
                  /\ j <= i => results[j] = ErrorRecord(hist[j].raised[1], urls[j])

\* C3's case: the first URL failed in navigation and the second was extracted.
C3_Witness ==
    /\ Len(results) = 2
    /\ results[1] = ErrorRecord("goto", urls[1])
    /\ IsChat(results[2])

\* C4: a navigation failure gives an error record with the original URL, and
\* the written summary's failed counter equals the number of error records.
C4_NavigationFailureCounted ==
    /\ script # "test_access" =>
          \A j \in 1..Len(hist) :
              (hist[j].raised = <<"goto">> /\ j <= i) =>
                  results[j] = ErrorRecord("goto", urls[j])
    /\ summary # <<>> =>
          /\ "failed" \in DOMAIN summary[1]
          /\ summary[1].failed =
                Cardinality({ k \in 1..Len(summary[1].results) :
                                IsError(summary[1].results[k]) })

\* C5, as stated: a URL whose navigation ends with a status other than 200 gets
\* an error record and no successful result record (read on the scripts that
\* hold the response themselves).
C5_Non200IsFailure ==
    (UsesPlaywright(script) /\ script # "test_access") =>
        \A j \in 1..Len(results) :
            hist[j].status \in Statuses \ {"200"} => IsError(results[j])

\* C5, amended: no script tests the response status.  Whatever the status, the
\* script goes on to capture the page; a URL none of whose steps raised gets a
\* successful record, and a record's status_code is the response's status.
C5_StatusIsNotTested ==
    /\ [](script # "test_access" =>
            \A j \in 1..Len(results) :
                /\ hist[j].raised = <<>> => IsChat(results[j])
                /\ (IsChat(results[j]) /\ "status_code" \in DOMAIN results[j]) =>
                       results[j].status_code = hist[j].status)
    /\ [][(pc = "goto" /\ hist'[Len(hist')].status \in Statuses) =>
              (pc' = AfterGoto(script) /\ response' = hist'[Len(hist')].status)]_vars

\* C5's case: a successful record of a page that came with status 403.
C5_Witness ==
    \E j \in 1..Len(results) :
        /\ IsChat(results[j])
        /\ "status_code" \in DOMAIN results[j]
        /\ results[j].status_code = "403"
        /\ hist[j].status = "403"

\* C6: when the page loads and no extraction path finds a message, the
\* extractor does not fail: the result record has messages = [] and
\* message_count = 0, and it is written to the per-URL JSON file.
C6_NoMessageGivesEmptyRecord ==
    (hist # <<>> /\ pc \in {"write", "close"} /\ hist[Len(hist)].parsed = <<0>>) =>
        /\ chat_data # <<>>
        /\ chat_data[1].messages = <<>>
        /\ chat_data[1].message_count = 0
        /\ (pc = "close" /\ hist[Len(hist)].raised = <<>>) =>
              /\ JsonFile(script, url) \in DOMAIN files
              /\ files[JsonFile(script, url)] = chat_data[1]

\* C7: the summary holds one result per processed URL in processing order,
\* total_urls is the length of results, and successful + failed = total_urls.
C7_SummaryAggregates ==
    summary # <<>> =>
        /\ Len(summary[1].results) = Len(urls)
        /\ \A j \in 1..Len(urls) : summary[1].results[j].url = urls[j]
        /\ summary[1].total_urls = Len(summary[1].results)
        /\ {"successful", "failed"} \subseteq DOMAIN summary[1]
        /\ summary[1].successful + summary[1].failed = summary[1].total_urls

C9_ApiMode ==
    (script = "extract_claude" /\ Len(argv) = 2 /\ pc # "main") =>
        /\ summary = <<>>
        /\ Len(hist) <= 1
        /\ \A j \in 1..Len(hist) : hist[j].url = argv[1]
        /\ pc = "done" =>
              /\ Len(hist) = 1
              /\ Len(results) = 1
              /\ results[1].url = argv[1]
              /\ IsChat(results[1]) \/ IsError(results[1])
              /\ IsError(results[1]) <=> hist[1].raised # <<>>
              /\ argv[2] \in DOMAIN files
              /\ files[argv[2]] = results[1]

\* C9's case: the run ended with an error record in the output file.
C9_Witness ==
    /\ pc = "done"
    /\ mode = "api"
    /\ argv[2] \in DOMAIN files
    /\ IsError(files[argv[2]])

\* C10: an error raised at any step of one URL (launch, context or page
\* creation, navigation, capture, parsing, writing, close) never keeps the
\* remaining URLs from being processed nor the summary from being written:
\* no exception ends the run.
C10_ErrorsAreLocal == pc # "crashed"

\* C11: URLs are processed one at a time in list order with no retry: URL i+1
\* is started only after the result of URL i is recorded, each URL is
\* navigated to at most once, and results is in the order of the URL list.
C11_Sequential ==
    /\ [](/\ Len(hist) = IF pc \in {"main", "loop", "done"} THEN i ELSE i + 1
          /\ \A j \in 1..Len(hist) : hist[j].url = urls[j] /\ hist[j].navs <= 1
          /\ script # "test_access" =>
                /\ Len(results) = i
                /\ \A j \in 1..Len(results) : results[j].url = urls[j])
    /\ [][Len(hist') # Len(hist) =>
              /\ Len(hist') = Len(hist) + 1
              /\ pc = "loop"
              /\ script # "test_access" => Len(results) = Len(hist)]_vars

\* C11's case: the first of two URLs failed in its one navigation, the second
\* was navigated to once, and the run ended.
C11_Witness ==
    /\ pc = "done"
    /\ Len(hist) = 2
    /\ hist[1].raised = <<"goto">>
    /\ hist[1].navs = 1
    /\ hist[2].navs = 1
    /\ hist[2].raised = <<>>
    /\ Len(results) = 2

StepRank(name) ==
    IF name = "launch" THEN 1
    ELSE IF name = "navigate" THEN 2
    ELSE IF name = "scroll" THEN 3
    ELSE IF name = "capture" THEN 4
    ELSE IF name = "parse" THEN 5
    ELSE 6

\* C12: for each URL the steps come in the order launch, navigate, scroll,
\* capture, parse, write; the raw HTML snapshot on disk is captured after the
\* scrolling and is the DOM serialization the messages are parsed from.
C12_PipelineOrder ==
    \A j \in 1..Len(hist) :
        /\ \A a, b \in 1..Len(hist[j].steps) :
              a < b => StepRank(hist[j].steps[a]) < StepRank(hist[j].steps[b])
        /\ hist[j].dom # <<>> =>
              /\ HtmlFile(script, hist[j].url) \in DOMAIN files
              /\ (j = Len(hist) \/ hist[j].url # hist[Len(hist)].url) =>
                    files[HtmlFile(script, hist[j].url)].html = hist[j].dom[1]

\* The messages of a record that were read from DOM elements.
DomMessages(r) == SelectSeq(r.messages, LAMBDA m : "source" \notin DOMAIN m)

Contents(ms) == [k \in 1..Len(ms) |-> ms[k].content]

TextsOf(elems) == [k \in 1..Len(elems) |-> elems[k].text]

\* gemini_chat_extractor.py: the DOM messages are the elements with text of
\* the first selector that matches an element, or every element with text when
\* no selector matches one.
CrawlCascade(elems, r) ==
    LET Hits(k) == { n \in 1..Len(elems) : Matches(CrawlSelectors[k], elems[n]) }
        Yields == { k \in 1..Len(CrawlSelectors) : Hits(k) # {} }
    IN  IF Yields = {}
        THEN Contents(DomMessages(r)) = TextsOf(SelectSeq(elems, LAMBDA e : e.text # 0))
        ELSE LET first == CHOOSE k \in Yields : \A other \in Yields : k <= other
             IN  Contents(DomMessages(r)) =
                     TextsOf(SelectSeq(elems, LAMBDA e :
                                 Matches(CrawlSelectors[first], e) /\ e.text # 0))

\* archive/gemini_extractor_simple.py: the messages are the elements with more
\* than 10 characters of the first selector that has such an element, and
\* the text blocks are read only when no selector has one.
SimpleCascadeHolds(elems, r) ==
    LET Long(k) == SelectSeq(elems, LAMBDA e :
                       /\ Matches(SimpleSelectorPassed(SimpleSelectors[k]), e)
                       /\ e.text # 0 /\ TextLen(e.text) > 10)
        Yields == { k \in 1..Len(SimpleSelectors) : Long(k) # <<>> }
    IN  IF Yields = {}
        THEN \A n \in 1..Len(r.messages) : r.messages[n].selector = "text_extraction"
        ELSE LET first == CHOOSE k \in Yields : \A other \in Yields : k <= other
             IN  /\ Contents(r.messages) = TextsOf(Long(first))
                 /\ \A n \in 1..Len(r.messages) :
                       r.messages[n].selector = SimpleSelectors[first].name

\* C13: the selector cascade tries its selectors in list order and stops at
\* the first that yields results: all DOM messages of a result come from that
\* one selector, later selectors are not consulted, and the text-block
\* fallback is used only when no selector yielded results.
C13_CascadeStopsAtFirst ==
    (chat_data # <<>> /\ soup # <<>>) =>
        /\ script = "gemini_chat_extractor" => CrawlCascade(soup[1].elems, chat_data[1])
        /\ script = "gemini_extractor_simple" =>
              SimpleCascadeHolds(soup[1].elems, chat_data[1])

\* C13's case: a page with an element of the second selector and an element
\* that only the last selector matches; the result holds the first alone.
C13_Witness ==
    /\ script = "gemini_chat_extractor"
    /\ chat_data # <<>>
    /\ soup # <<>>
    /\ Len(soup[1].elems) = 2
    /\ soup[1].elems[1].cls = "user-query" /\ soup[1].elems[1].text # 0
    /\ soup[1].elems[2].cls = "message" /\ soup[1].elems[2].text # 0
    /\ Contents(DomMessages(chat_data[1])) = <<soup[1].elems[2].text>>

NoDuplicateContent(r) ==
    \A a, b \in 1..Len(r.messages) :
        a # b => r.messages[a].content # r.messages[b].content

\* C14: within one result of extract_claude.py (primary and fallback path)
\* and of archive/gemini_extractor_simple.py (selector path and text-block
\* fallback), no two message records have the same content text.
C14_NoDuplicateContent ==
    script \in {"extract_claude", "gemini_extractor_simple"} =>
        EveryRecord(NoDuplicateContent)

\* The message of a turn's element with a role, if the result has one.
TurnMessages(r, t, role) ==
    { n \in 1..Len(r.messages) : r.messages[n].turn = t /\ r.messages[n].role = role }

\* C15: in extract_gemini.py, turn values are non-decreasing along messages,
\* a turn gives at most one user and one assistant message, the user message
\* comes first, and a message's turn is the position of its share-turn-viewer
\* element on the page.
C15_TurnsPreserved ==
    (script = "extract_gemini" /\ chat_data # <<>> /\ soup # <<>>) =>
        LET r == chat_data[1]
            turns == soup[1].turns
        IN  /\ \A a, b \in 1..Len(r.messages) :
                  a < b => /\ r.messages[a].turn <= r.messages[b].turn
                           /\ r.messages[a].turn = r.messages[b].turn =>
                                 /\ r.messages[a].role = "user"
                                 /\ r.messages[b].role = "assistant"
            /\ \A t \in 0..(Len(turns) - 1) :
                  /\ Cardinality(TurnMessages(r, t, "user")) <= 1
                  /\ Cardinality(TurnMessages(r, t, "assistant")) <= 1
            /\ \A n \in 1..Len(r.messages) :
                  LET m == r.messages[n]
                  IN  /\ m.turn \in 0..(Len(turns) - 1)
                      /\ m.role = "user" => turns[m.turn + 1].query = <<m.content>>
                      /\ m.role = "assistant" =>
                            /\ turns[m.turn + 1].response # <<>>
                            /\ turns[m.turn + 1].response[1].text = m.content

\* C15's case: the first turn of the page gives no message and the second
\* gives a query and a response, both with turn 1.
C15_Witness ==
    /\ script = "extract_gemini"
    /\ chat_data # <<>>
    /\ Len(chat_data[1].messages) = 2
    /\ chat_data[1].messages[1].turn = 1 /\ chat_data[1].messages[1].role = "user"
    /\ chat_data[1].messages[2].turn = 1 /\ chat_data[1].messages[2].role = "assistant"

RoleIsKnown(r) ==
    \A n \in 1..Len(r.messages) : r.messages[n].role \in {"user", "assistant", "unknown"}

\* C16: every message record of every result carries a role that is one of
\* "user", "assistant" and "unknown".
C16_RolesAreKnown == EveryRecord(RoleIsKnown)

\* C16's case: a returned record with a user message read from the DOM and
\* an unknown message read from the markdown.
C16_Witness ==
    \E k \in 1..Len(results) :
        /\ IsChat(results[k])
        /\ Len(results[k].messages) = 2
        /\ results[k].messages[1].role = "user"
        /\ results[k].messages[2].role = "unknown"

\* The names a script gives the artifacts of a URL whose last piece is last.
ArtifactNames(s, last) ==
    IF s \in {"extract_claude", "extract_gemini"}
    THEN { <<"output", "", last, sfx>> :
               sfx \in {"_chat.json", "_raw.html", "_screenshot.png"} }
    ELSE IF s = "test_access" THEN { <<".", "test_output_", last, ".html">> }
    ELSE { <<"output", "gemini_chat_", last, sfx>> :
               sfx \in {".json", "_debug.html", "_screenshot.png"} }

\* C17: the name of every per-URL artifact file (result JSON, raw HTML
\* snapshot, screenshot) is derived from the last '/'-separated piece of the
\* URL and from nothing else of it, also for a URL that ends in '/'.
C17_NamesFromLastSegment ==
    /\ [](\A f \in DOMAIN files :
              \/ mode = "api" /\ pc = "done" /\ f = argv[2]
              \/ \E j \in 1..Len(hist) :
                    f \in ArtifactNames(script, hist[j].url[Len(hist[j].url)]))
    /\ [][\A f \in DOMAIN files' \ DOMAIN files :
              pc # "loop" => f \in ArtifactNames(script, url[Len(url)])]_vars

\* C17's case: the result and the snapshot of a URL that ends in '/' are
\* written, named by its empty last piece.
C17_Witness ==
    /\ script = "extract_gemini"
    /\ Len(hist) >= 1
    /\ hist[1].url = <<"host", "share", "y", "">>
    /\ <<"output", "", "", "_chat.json">> \in DOMAIN files
    /\ <<"output", "", "", "_raw.html">> \in DOMAIN files
    /\ <<"output", "", "", "_screenshot.png">> \in DOMAIN files

\* The record in memory that was dumped to a JSON file.
RecordOf(f) == IF f = SummaryFile(script) THEN summary[1] ELSE files[f]

C19_ScrollLoopEnds ==
    /\ [](scroll_attempts <= 15 /\ scrolls <= 15)
    /\ [][(pc = "scroll" /\ scrolls' = scrolls + 1 /\ height' = height) =>
              pc' # "scroll"]_vars
    /\ <>(pc # "scroll")

\* C19's case: the page grew after each of 15 scrolls and the loop has ended.
C19_Witness ==
    /\ pc = "parse"
    /\ scrolls = 15
    /\ scroll_attempts = 15
    /\ height = 15

\* No close of a browser has raised.
NoCloseError ==
    \A j \in 1..Len(hist) : \A k \in 1..Len(hist[j].raised) : hist[j].raised[k] # "close"

RolesAlternate(r) ==
    \A n \in 1..Len(r.messages) :
        r.messages[n].role = IF (n - 1) % 2 = 0 THEN "user" ELSE "assistant"

\* C21: in every result of extract_claude.py, on the primary and the fallback
\* path, the message at index i has role user when i is even and assistant
\* when i is odd, also when duplicate candidates are skipped in between.
C21_RolesAlternate == script = "extract_claude" => EveryRecord(RolesAlternate)

\* C21's case: the primary path on divs that repeat each text, with three
\* messages and more recorded.
C21_Witness ==
    /\ script = "extract_claude"
    /\ chat_data # <<>>
    /\ soup # <<>>
    /\ Len(soup[1].elems) >= 6
    /\ soup[1].elems[1].tag = "div"
    /\ soup[1].elems[1].text = soup[1].elems[2].text
    /\ Len(chat_data[1].messages) >= 3
    /\ chat_data[1].messages[3].role = "user"

TurnIsHalfIndex(r) ==
    \A n \in 1..Len(r.messages) : r.messages[n].turn = (n - 1) \div 2

\* C22: in every result of extract_claude.py the message at index i has
\* turn = floor(i / 2): the turn counter goes up once per recorded assistant
\* message and not for a candidate dropped as a duplicate.
C22_TurnIsHalfIndex == script = "extract_claude" => EveryRecord(TurnIsHalfIndex)

\* C22's case: the fallback path on spans that repeat each text, with four
\* messages and more recorded, the fourth in turn 1.
C22_Witness ==
    /\ script = "extract_claude"
    /\ chat_data # <<>>
    /\ soup # <<>>
    /\ Len(soup[1].elems) >= 8
    /\ soup[1].elems[1].tag = "span"
    /\ soup[1].elems[1].text = soup[1].elems[2].text
    /\ Len(chat_data[1].messages) >= 4
    /\ chat_data[1].messages[4].turn = 1

\* The texts of a sequence, each once, in the order of their first places.
RECURSIVE DistinctTexts(_, _, _)
DistinctTexts(texts, k, seen) ==
    IF k > Len(texts) THEN seen
    ELSE IF \E n \in 1..Len(seen) : seen[n] = texts[k]
    THEN DistinctTexts(texts, k + 1, seen)
    ELSE DistinctTexts(texts, k + 1, Append(seen, texts[k]))

\* C23: in extract_claude.py the fallback runs only when the primary strategy
\* recorded no message, and a result of the fallback holds at most 50
\* messages: the extraction stops when the 50th is recorded.
C23_FallbackLimited ==
    (script = "extract_claude" /\ chat_data # <<>> /\ soup # <<>>) =>
        LET elems == soup[1].elems
            primary == DistinctTexts(TextsOf(SelectSeq(elems, LAMBDA e :
                           e.tag = "div" /\ e.leaf /\ e.text # 0 /\ TextLen(e.text) >= 10)),
                           1, <<>>)
            blocks == DistinctTexts(TextsOf(SelectSeq(elems, LAMBDA e :
                           e.text # 0 /\ TextLen(e.text) >= 20)), 1, <<>>)
            got == Contents(chat_data[1].messages)
        IN  IF primary # <<>> THEN got = primary
            ELSE /\ Len(got) <= 50
                 /\ got = SubSeq(blocks, 1, IF Len(blocks) < 50 THEN Len(blocks) ELSE 50)

\* C23's case: a page of 52 distinct text blocks in spans gave 50 messages.
C23_Witness ==
    /\ script = "extract_claude"
    /\ chat_data # <<>>
    /\ soup # <<>>
    /\ Len(soup[1].elems) = 52
    /\ soup[1].elems[1].tag = "span"
    /\ soup[1].elems[1].text # soup[1].elems[2].text
    /\ Len(chat_data[1].messages) = 50

MarkdownAndLinks(r) ==
    \A n \in 1..Len(r.messages) :
        LET msg == r.messages[n]
        IN  /\ "content_markdown" \in DOMAIN msg <=> msg.role = "assistant"
            /\ "links" \in DOMAIN msg =>
                  /\ msg.role = "assistant"
                  /\ msg.links # <<>>
                  /\ \A k \in 1..Len(msg.links) :
                        msg.links[k].text # 0 /\ msg.links[k].url # 0

\* The hyperlinks of the page's elements (of its responses, for extract_gemini.py).
PageAnchors(page) ==
    { page.elems[k].anchors : k \in 1..Len(page.elems) }
        \cup { page.turns[k].response[1].anchors :
                  k \in { j \in 1..Len(page.turns) : page.turns[j].response # <<>> } }

\* C24: in results of extract_claude.py and extract_gemini.py a message has a
\* content_markdown field exactly when its role is assistant, and a links
\* field only when it is an assistant message for which a hyperlink with a
\* text and an href was found: never an empty links list.
C24_MarkdownAndLinks ==
    script \in {"extract_claude", "extract_gemini"} => EveryRecord(MarkdownAndLinks)

\* C24's case: a result with an assistant message that has links and one that
\* has none, from a page with a hyperlink that has no text or no href.
C24_Witness ==
    /\ script \in {"extract_claude", "extract_gemini"}
    /\ chat_data # <<>>
    /\ soup # <<>>
    /\ \E as \in PageAnchors(soup[1]) :
          \E k \in 1..Len(as) : as[k].text = 0 \/ as[k].href = 0
    /\ \E n \in 1..Len(chat_data[1].messages) :
          "links" \in DOMAIN chat_data[1].messages[n]
    /\ \E n \in 1..Len(chat_data[1].messages) :
          /\ chat_data[1].messages[n].role = "assistant"
          /\ "links" \notin DOMAIN chat_data[1].messages[n]

\* The URLs of the list that are processed with no other URL of the list
\* sharing the name of their result file.
OwnFile(j) ==
    \A k \in 1..Len(urls) :
        k # j => JsonFile(script, urls[k]) # JsonFile(script, urls[j])

\* C25: when the processing of a URL fails, the per-URL result JSON of that URL
\* is not created, and no per-URL result JSON holds an error record.
C25_FailureLeavesNoFile ==
    script # "test_access" =>
        /\ \A j \in 1..Len(results) :
              (j <= Len(urls) /\ IsError(results[j]) /\ OwnFile(j)) =>
                  JsonFile(script, urls[j]) \notin DOMAIN files
        /\ \A j \in 1..Len(urls) :
              JsonFile(script, urls[j]) \in DOMAIN files =>
                  ~IsError(files[JsonFile(script, urls[j])])

\* C26: after a run, the per-URL result JSON of every successfully processed
\* URL holds that URL's own record, whatever the other URLs of the list
\* (distinct from it) wrote.
C26_OwnRecordKept ==
    (pc = "done" /\ mode = "list" /\ script # "test_access") =>
        \A j \in 1..Len(results) :
            (IsChat(results[j]) /\ \A k \in 1..Len(urls) : k # j => urls[k] # urls[j]) =>
                /\ JsonFile(script, urls[j]) \in DOMAIN files
                /\ files[JsonFile(script, urls[j])] = results[j]

====
